---- MODULE Spec2Model ----
(***************************************************************************)
(* The time-entry form of todo-demo: the root component App (App.tsx) with *)
(* its four pieces of state, its handlers change / start / pause /         *)
(* clearChanges / revert / save, the one-second interval callback and the  *)
(* derived, date-filtered view it renders; and the entry point index.tsx,  *)
(* which reads the change-set from localStorage, mounts App and writes the *)
(* change-set back through a debounced function.                           *)
(*                                                                         *)
(* JavaScript values are modelled as follows.                              *)
(*   - An object is a function from its own keys to their values; the      *)
(*     spread {...a, ...b} is Spread(a, b); a key holding undefined is a   *)
(*     key of the object (as for Object.keys and the spread).              *)
(*   - A calendar date is a record with a kind: a Moment object, the ISO   *)
(*     string JSON.parse yields for a stored Moment, undefined or null.    *)
(*     Only a Moment has the method dayOfYear().                           *)
(*   - activeTimeEntry === undefined is NoEntry.                           *)
(*   - A JSON text is modelled by the JSON value it denotes.               *)
(*                                                                         *)
(* Three specifications share the variables.  Spec is App alone, mounted   *)
(* with the prop savedChanges it declares; the store, the debounce and the *)
(* clock take no part in it.  SpecBoot is the start of the page as         *)
(* index.tsx performs it.  SpecStore is App together with the debounced    *)
(* write to the store, with time passing in periods of one second.         *)
(***************************************************************************)
EXTENDS Integers, Sequences, FiniteSets, TLC

VARIABLES
    timeEntries,      \* useState<TimeEntry[]>, line 45
    changes,          \* useState<ChangedEntries>, line 47
    currentDate,      \* useState<Moment | null>, line 51
    activeTimeEntry,  \* useState<EntryId>, line 52
    savedChanges,     \* props.savedChanges, line 42
    crashed,          \* the last render threw: React unmounted the tree
    last,             \* history: the handler that ran last, its arguments, whether it called pause()
    tracked,          \* history: the entries never reverted, in a run begun with no changes
    delivered,        \* history: per tracked entry, the ticks delivered while it was active
    localStorage,     \* window.localStorage under LOCAL_KEY_CHANGES, index.tsx line 10
    localData,        \* let localData, index.tsx line 11
    pc,               \* how far index.tsx has run
    debounced,        \* the timer and the last arguments of updateLocalStorage, index.tsx line 22
    now               \* the clock, in periods of 1000 ms, modulo 2

appVars == <<timeEntries, changes, currentDate, activeTimeEntry, savedChanges,
             crashed, last, tracked, delivered>>

storeVars == <<localStorage, localData, pc, debounced, now>>

vars == <<timeEntries, changes, currentDate, activeTimeEntry, savedChanges,
          crashed, last, tracked, delivered,
          localStorage, localData, pc, debounced, now>>

(***************************************************************************)
(* Bounds of the model.                                                    *)
(***************************************************************************)
\* ticks are delivered while the times of all ids add up to less than MaxTime
MaxTime == 2

(***************************************************************************)
(* Values.                                                                 *)
(***************************************************************************)
Moment(y, d) == [kind |-> "moment", year |-> y, doy |-> d]
IsoString(y, d) == [kind |-> "string", year |-> y, doy |-> d]
Undefined == [kind |-> "undefined", year |-> 0, doy |-> 0]
Null == [kind |-> "null", year |-> 0, doy |-> 0]

\* moment(): the day the page was loaded
Today == Moment(2021, 1)
\* what the "Selected Date" picker is set to: today, another day of another year, or cleared
SelectableDates == {Today, Moment(2022, 2), Null}
\* what a card's date picker is set to: another day, or cleared
PickableDates == {Moment(2021, 2), Null}

NoEntry == "<undefined>"
\* EntryId = string: the two seeded ids and one id no entry has.
EntryIds == {"1", "2", "3"}
SeededIds == {"1", "2"}
\* the card whose notes and date fields are edited
EditedIds == {"1"}

TypedNotes == {"ab"}

EmptyObject == [k \in {} |-> 0]

\* {...a, ...b}
Spread(a, b) == [k \in DOMAIN a \cup DOMAIN b |-> IF k \in DOMAIN b THEN b[k] ELSE a[k]]

\* const newChanges = {...changes}; delete newChanges[id]
Delete(obj, key) == [k \in DOMAIN obj \ {key} |-> obj[k]]

EXISTING_TE ==
    << [id |-> "1", notes |-> "GST: hello world", time |-> 0, date |-> Today],
       [id |-> "2", notes |-> "GST: another item", time |-> 0, date |-> Today] >>

\* timeEntries.find(te => te.id === id): the index of the first match, 0 for none
FindIndex(tes, id) ==
    IF \E i \in 1..Len(tes) : tes[i].id = id
    THEN CHOOSE i \in 1..Len(tes) :
            /\ tes[i].id = id
            /\ \A j \in 1..(i - 1) : tes[j].id # id
    ELSE 0

(***************************************************************************)
(* The change-sets a previous session can have written to the local store, *)
(* as JSON.parse returns them: notes, a time counted up by ticks, and a    *)
(* picked date, which comes back as its ISO string.                        *)
(***************************************************************************)
SavedChangesSet ==
    { EmptyObject,
      ("1" :> [notes |-> "a", time |-> 1]),
      ("1" :> [date |-> IsoString(2021, 2)]) }

(***************************************************************************)
(* The local store and JSON, index.tsx lines 10-25.                        *)
(***************************************************************************)
\* getItem of a key nothing is stored under: null
NoItem == [kind |-> "null"]
\* a stored text JSON.parse throws on
Unparseable == [kind |-> "malformed"]
\* a stored JSON text, given by the value it denotes
JSONtext(value) == [kind |-> "text", json |-> value]

\* JSON.stringify calls toJSON of a Moment, which gives its ISO string
toJSON(k, v) == IF k = "date" /\ v.kind = "moment" THEN IsoString(v.year, v.doy) ELSE v

\* JSON.stringify leaves out a key whose value is undefined
isOmitted(k, v) == k = "date" /\ v.kind = "undefined"

stringifyRecord(rec) ==
    [k \in {f \in DOMAIN rec : ~isOmitted(f, rec[f])} |-> toJSON(k, rec[k])]

\* JSON.stringify(changes), line 24
JSONstringify(ch) == JSONtext([id \in DOMAIN ch |-> stringifyRecord(ch[id])])

\* JSON.parse without a reviver: a string stays a string
JSONparse(text) == text.json

\* lines 14-18: localData ? JSON.parse(localData) : {}, and {} when it throws
parseLocalData(item) ==
    IF item.kind = "null" THEN EmptyObject
    ELSE IF item.kind = "malformed" THEN EmptyObject
    ELSE JSONparse(item)

\* the pending records of one id a session can come to write
StoredRecords ==
    { [notes |-> "a"], [time |-> 1], [time |-> 2], [notes |-> "a", time |-> 1],
      [date |-> Moment(2021, 2)] }

\* the change-sets over the seeded ids a session can come to write
StoredChanges == UNION { [S -> StoredRecords] : S \in SUBSET SeededIds }

\* what the page can find under the key when it starts
StoredItems == {NoItem, Unparseable} \cup { JSONstringify(ch) : ch \in StoredChanges }

\* the debounced function, line 22, with no call waiting
NoCall == [pending |-> FALSE, age |-> 0, tie |-> FALSE, lastArgs |-> Undefined,
           fired |-> FALSE]

(***************************************************************************)
(* State handlers.                                                         *)
(***************************************************************************)
\* change without line 60: the record of id is replaced by the updates
changeReplacesRecord(ch, id, updates) == Spread(ch, (id :> updates))

\* change reading the changes of the first render instead of the current ones
changeFromMount(ch, id, updates) ==
    LET currentChanges == IF id \in DOMAIN savedChanges THEN savedChanges[id] ELSE EmptyObject
        newItem == Spread(currentChanges, updates)
    IN  Spread(savedChanges, (id :> newItem))

\* change, lines 58-64: the new value of changes
change(ch, id, updates) ==
    LET currentChanges == IF id \in DOMAIN ch THEN ch[id] ELSE EmptyObject
        newItem == Spread(currentChanges, updates)
    IN  Spread(ch, (id :> newItem))

\* line 71 without its first operand: the pending time is not read
currentTimeOfEntry(ch, tes, id) ==
    LET i == FindIndex(tes, id)
    IN  IF i # 0 /\ tes[i].time # 0 THEN tes[i].time ELSE 0

\* line 71: changes[id]?.time || timeEntries.find(..)?.time || 0
currentTime(ch, tes, id) ==
    LET i == FindIndex(tes, id)
    IN  IF id \in DOMAIN ch /\ "time" \in DOMAIN ch[id] /\ ch[id].time # 0
        THEN ch[id].time
        ELSE IF i # 0 /\ tes[i].time # 0 THEN tes[i].time ELSE 0

\* clearChanges with newChanges[id] = {} for the delete
clearChangesKeepsKey(ch, id) == Spread(ch, (id :> EmptyObject))

\* clearChanges with setChanges({})
clearChangesOfAll(ch, id) == EmptyObject

\* clearChanges, lines 79-84: the new value of changes
clearChanges(ch, id) == Delete(ch, id)

\* the early return without "|| !existingItem"
saveReturnsEarlyUnlessDirty(ch, tes, id) == id \notin DOMAIN ch

\* save, lines 95-100: the early return
saveReturnsEarly(ch, tes, id) == id \notin DOMAIN ch \/ FindIndex(tes, id) = 0

\* line 104 with the spreads in the other order
saveEntriesKeepsExisting(ch, tes, id) ==
    LET existingItem == IF FindIndex(tes, id) # 0 THEN tes[FindIndex(tes, id)] ELSE EmptyObject
        itemChanges == IF id \in DOMAIN ch THEN ch[id] ELSE EmptyObject
        updatedItem == Spread(itemChanges, existingItem)
    IN  [i \in 1..Len(tes) |-> IF tes[i].id = id THEN updatedItem ELSE tes[i]]

\* save, lines 103-106: the new value of timeEntries
\* (spreading undefined adds no key)
saveEntries(ch, tes, id) ==
    LET existingItem == IF FindIndex(tes, id) # 0 THEN tes[FindIndex(tes, id)] ELSE EmptyObject
        itemChanges == IF id \in DOMAIN ch THEN ch[id] ELSE EmptyObject
        updatedItem == Spread(existingItem, itemChanges)
    IN  [i \in 1..Len(tes) |-> IF tes[i].id = id THEN updatedItem ELSE tes[i]]

(***************************************************************************)
(* Derived state, lines 112-116, and the props of the list, lines 127-131. *)
(***************************************************************************)
\* line 114
withChanges(ch, te) == IF te.id \in DOMAIN ch THEN Spread(te, ch[te.id]) ELSE te

\* changes[te.id] throws when changes is undefined, and
\* te.date.dayOfYear() throws unless te.date is a Moment
renderThrows(ch, tes) ==
    \/ ch = Undefined /\ tes # <<>>
    \/ \E i \in 1..Len(tes) : withChanges(ch, tes[i]).date.kind # "moment"

\* line 116: te.date.dayOfYear() === currentDate?.dayOfYear()
sameDay(date, cur) == cur.kind = "moment" /\ date.doy = cur.doy

\* line 116 without the filter
filterDayKeepsAll(s, cur) == s

RECURSIVE filterDay(_, _)
filterDay(s, cur) ==
    IF s = <<>> THEN <<>>
    ELSE IF sameDay(Head(s).date, cur)
         THEN <<Head(s)>> \o filterDay(Tail(s), cur)
         ELSE filterDay(Tail(s), cur)

mergedEntries(ch, tes) == [i \in 1..Len(tes) |-> withChanges(ch, tes[i])]

\* lines 112-116 with the filter run before the map: on the date of the entry
timeEntriesFilteredFirst == mergedEntries(changes, filterDay(timeEntries, currentDate))

timeEntriesWithChanges == filterDay(mergedEntries(changes, timeEntries), currentDate)

\* line 130: Object.keys(changes)
dirtyItems == DOMAIN changes

\* line 162 with isActive set for every card while a timer runs
isActiveOfAny(active, id) == active # NoEntry

\* line 162: isActive={activeTimeEntry === te.id}
isActive(active, id) == active = id

\* line 163: isDirty={dirtyItems.includes(te.id)}
isDirty(dirty, id) == id \in dirty

\* lines 194-197: the buttons of a card
TimeEntryActions(active, dirty) ==
    (IF ~active THEN {"Start"} ELSE {})
        \cup (IF active THEN {"Pause"} ELSE {})
        \cup (IF dirty THEN {"Revert"} ELSE {})
        \cup (IF dirty THEN {"Save"} ELSE {})

\* lines 156-172: one card per listed entry, with the buttons it shows
TimeEntryList ==
    [i \in 1..Len(timeEntriesWithChanges) |->
        LET te == timeEntriesWithChanges[i]
        IN  [te |-> te,
             actions |-> TimeEntryActions(isActive(activeTimeEntry, te.id),
                                          isDirty(dirtyItems, te.id))]]

(***************************************************************************)
(* Construction: App mounted with props.savedChanges (AppProps, line 39),  *)
(* the useState initialisers and the first render.                         *)
(***************************************************************************)
Mounted(saved) ==
    /\ savedChanges = saved
    /\ timeEntries = EXISTING_TE
    /\ changes = savedChanges
    /\ currentDate = Today
    /\ activeTimeEntry = NoEntry
    /\ crashed = renderThrows(savedChanges, EXISTING_TE)
    /\ last = [op |-> "init", id |-> NoEntry, updates |-> EmptyObject, paused |-> FALSE]
    /\ tracked = IF savedChanges = EmptyObject THEN SeededIds ELSE {}
    /\ delivered = [i \in SeededIds |-> 0]

\* App alone: the store is left out
Init ==
    /\ \E saved \in SavedChangesSet : Mounted(saved)
    /\ localStorage = NoItem
    /\ localData = savedChanges
    /\ pc = "mounted"
    /\ debounced = NoCall
    /\ now = 0

\* Every state update is followed by a render of App.
Rendered == crashed' = renderThrows(changes', timeEntries')

RECURSIVE SumOver(_, _)
SumOver(f, S) ==
    IF S = {} THEN 0
    ELSE LET x == CHOOSE y \in S : TRUE IN f[x] + SumOver(f, S \ {x})

TotalTime == SumOver([i \in EntryIds |-> currentTime(changes, timeEntries, i)], EntryIds)

(***************************************************************************)
(* The handlers.  start, revert and save take any EntryId; the fields of   *)
(* one card are edited.  Nothing runs once a render has thrown.            *)
(***************************************************************************)
\* onChange of a card writing the updates into the entry instead of recording them
ChangeInPlace(id, updates) ==
    /\ ~crashed
    /\ timeEntries' = [i \in 1..Len(timeEntries) |->
                          IF timeEntries[i].id = id
                          THEN Spread(timeEntries[i], updates)
                          ELSE timeEntries[i]]
    /\ last' = [op |-> "change", id |-> id, updates |-> updates, paused |-> FALSE]
    /\ UNCHANGED <<changes, currentDate, activeTimeEntry, savedChanges,
                   tracked, delivered>>
    /\ Rendered

\* onChange of a card: notes, line 207, or date, line 213
Change(id, updates) ==
    /\ ~crashed
    /\ changes' = change(changes, id, updates)
    /\ last' = [op |-> "change", id |-> id, updates |-> updates, paused |-> FALSE]
    /\ UNCHANGED <<timeEntries, currentDate, activeTimeEntry, savedChanges,
                   tracked, delivered>>
    /\ Rendered

ChangeNotes == \E id \in EditedIds, v \in TypedNotes : Change(id, [notes |-> v])

\* d || undefined
ChangeDate ==
    \E id \in EditedIds, d \in PickableDates :
        Change(id, [date |-> IF d = Null THEN Undefined ELSE d])

\* the interval callback, lines 66-74
Tick ==
    /\ ~crashed
    /\ TotalTime < MaxTime
    /\ IF activeTimeEntry # NoEntry
       THEN LET updates == [time |-> currentTime(changes, timeEntries, activeTimeEntry) + 1]
            IN  /\ changes' = change(changes, activeTimeEntry, updates)
                /\ delivered' = IF activeTimeEntry \in tracked
                                THEN [delivered EXCEPT ![activeTimeEntry] = @ + 1]
                                ELSE delivered
                /\ last' = [op |-> "tick", id |-> activeTimeEntry, updates |-> updates, paused |-> FALSE]
       ELSE /\ UNCHANGED <<changes, delivered>>
            /\ last' = [op |-> "tick", id |-> NoEntry, updates |-> EmptyObject, paused |-> FALSE]
    /\ UNCHANGED <<timeEntries, currentDate, activeTimeEntry, savedChanges, tracked>>
    /\ Rendered

\* start doing nothing while a timer runs
StartKeepsRunning ==
    \E id \in EntryIds :
        /\ ~crashed
        /\ activeTimeEntry' = IF activeTimeEntry = NoEntry THEN id ELSE activeTimeEntry
        /\ last' = [op |-> "start", id |-> id, updates |-> EmptyObject, paused |-> FALSE]
        /\ UNCHANGED <<timeEntries, changes, currentDate, savedChanges,
                       tracked, delivered>>
        /\ Rendered

\* start, line 76
StartEntry(id) ==
    /\ ~crashed
    /\ activeTimeEntry' = id
    /\ last' = [op |-> "start", id |-> id, updates |-> EmptyObject, paused |-> FALSE]
    /\ UNCHANGED <<timeEntries, changes, currentDate, savedChanges,
                   tracked, delivered>>
    /\ Rendered

Start == \E id \in EntryIds : StartEntry(id)

\* pause, line 77
Pause ==
    /\ ~crashed
    /\ activeTimeEntry' = NoEntry
    /\ last' = [op |-> "pause", id |-> NoEntry, updates |-> EmptyObject, paused |-> TRUE]
    /\ UNCHANGED <<timeEntries, changes, currentDate, savedChanges,
                   tracked, delivered>>
    /\ Rendered

\* revert without lines 88-90
revertActiveKeepsTimer(active, id) == active

\* revert, lines 88-90: the new value of activeTimeEntry
revertActive(active, id) == IF active = id THEN NoEntry ELSE active

\* revert, lines 86-93
RevertEntry(id) ==
    /\ ~crashed
    /\ activeTimeEntry' = revertActive(activeTimeEntry, id)
    /\ changes' = clearChanges(changes, id)
    /\ tracked' = tracked \ {id}
    /\ delivered' = [i \in SeededIds |-> IF i = id THEN 0 ELSE delivered[i]]
    /\ last' = [op |-> "revert", id |-> id, updates |-> EmptyObject, paused |-> activeTimeEntry = id]
    /\ UNCHANGED <<timeEntries, currentDate, savedChanges>>
    /\ Rendered

Revert == \E id \in EntryIds : RevertEntry(id)

\* save, lines 95-109
SaveEntry(id) ==
    /\ ~crashed
    /\ IF saveReturnsEarly(changes, timeEntries, id)
       THEN UNCHANGED <<timeEntries, changes>>
       ELSE /\ timeEntries' = saveEntries(changes, timeEntries, id)
            /\ changes' = clearChanges(changes, id)
    /\ last' = [op |-> "save", id |-> id, updates |-> EmptyObject, paused |-> FALSE]
    /\ UNCHANGED <<currentDate, activeTimeEntry, savedChanges,
                   tracked, delivered>>
    /\ Rendered

Save == \E id \in EntryIds : SaveEntry(id)

\* onChange of the "Selected Date" picker, line 125
SetCurrentDate ==
    \E d \in SelectableDates :
        /\ ~crashed
        /\ currentDate' = d
        /\ last' = [op |-> "date", id |-> NoEntry, updates |-> EmptyObject, paused |-> FALSE]
        /\ UNCHANGED <<timeEntries, changes, activeTimeEntry, savedChanges,
                       tracked, delivered>>
        /\ Rendered

Next ==
    \/ ChangeNotes /\ UNCHANGED storeVars
    \/ ChangeDate /\ UNCHANGED storeVars
    \/ Tick /\ UNCHANGED storeVars
    \/ Start /\ UNCHANGED storeVars
    \/ Pause /\ UNCHANGED storeVars
    \/ Revert /\ UNCHANGED storeVars
    \/ Save /\ UNCHANGED storeVars
    \/ SetCurrentDate /\ UNCHANGED storeVars

Spec == Init /\ [][Next]_vars

(***************************************************************************)
(* The debounced write, index.tsx lines 20-25, as App's effect calls it.   *)
(* debounced.pending: a call waits for its timer; debounced.age: the       *)
(* periods begun since that call; debounced.tie: the call was made by the  *)
(* effect of a tick, so that its timer falls due together with the effect  *)
(* of the next tick; debounced.fired: the timer has fired, and the store   *)
(* was written, since the current period began.                            *)
(***************************************************************************)
\* a debounce that keeps the arguments of the first call of a burst
debounceKeepsFirst(d, args, tie) ==
    IF d.pending
    THEN [d EXCEPT !.age = 0, !.tie = tie]
    ELSE [pending |-> TRUE, age |-> 0, tie |-> tie, lastArgs |-> args, fired |-> d.fired]

\* a call of the debounced function: the wait starts again with these arguments
debounceCall(d, args, tie) ==
    [pending |-> TRUE, age |-> 0, tie |-> tie, lastArgs |-> args, fired |-> d.fired]

\* useEffect, line 55, after a state update that made changes a new object:
\* the effect runs when the render was committed
OnSaveChanges(tie) ==
    debounced' = IF crashed' THEN debounced ELSE debounceCall(debounced, changes', tie)

(***************************************************************************)
(* The start of the page, index.tsx lines 10-32: the item is read, parsed  *)
(* and handed to App, which is constructed and rendered for the first      *)
(* time.                                                                   *)
(***************************************************************************)
\* const { savedChanges, onSaveChanges } = props: a prop not passed is undefined
prop(props, name) == IF name \in DOMAIN props THEN props[name] ELSE Undefined

\* nothing of App exists before ReactDOM.render
InitBoot ==
    /\ localStorage \in StoredItems
    /\ localData = Undefined
    /\ pc = "getItem"
    /\ debounced = NoCall
    /\ now = 0
    /\ savedChanges = Undefined
    /\ changes = Undefined
    /\ timeEntries = <<>>
    /\ currentDate = Null
    /\ activeTimeEntry = NoEntry
    /\ crashed = FALSE
    /\ last = [op |-> "init", id |-> NoEntry, updates |-> EmptyObject, paused |-> FALSE]
    /\ tracked = {}
    /\ delivered = [i \in SeededIds |-> 0]

\* line 11
GetItem ==
    /\ pc = "getItem"
    /\ localData' = localStorage
    /\ pc' = "parse"
    /\ UNCHANGED <<appVars, localStorage, debounced, now>>

\* lines 14-18
ParseLocalData ==
    /\ pc = "parse"
    /\ localData' = parseLocalData(localData)
    /\ pc' = "render"
    /\ UNCHANGED <<appVars, localStorage, debounced, now>>

\* lines 27-32, and App's lines 41-52 with its first render and, when the
\* render is committed, its first effect, line 55
Render ==
    /\ pc = "render"
    /\ LET props == [initChanges |-> localData, onSaveChanges |-> "updateLocalStorage"]
       IN  /\ savedChanges' = prop(props, "savedChanges")
           /\ changes' = prop(props, "savedChanges")
    /\ timeEntries' = EXISTING_TE
    /\ currentDate' = Today
    /\ activeTimeEntry' = NoEntry
    /\ pc' = "mounted"
    /\ UNCHANGED <<last, tracked, delivered, localStorage, localData, now>>
    /\ Rendered
    /\ OnSaveChanges(FALSE)

NextBoot ==
    \/ GetItem
    \/ ParseLocalData
    \/ Render

SpecBoot == InitBoot /\ [][NextBoot]_vars

(***************************************************************************)
(* App with the store.  Time passes in periods of 1000 ms, which is both   *)
(* the delay of the interval, line 74, and the wait of the debounce, line  *)
(* 25: each period begins with the interval firing.  A debounce timer set  *)
(* during one period falls due during the next one, after the interval has *)
(* fired and before it fires again.  The handlers are those of Spec, for   *)
(* the card StoreId; the times the model counts stop at MaxTime, and a     *)
(* tick at the bound is an update that leaves the counted time as it is.   *)
(***************************************************************************)
StoreId == "1"

InitStore ==
    /\ Mounted(EmptyObject)
    /\ localStorage = NoItem
    /\ localData = EmptyObject
    /\ pc = "mounted"
    /\ debounced = debounceCall(NoCall, EmptyObject, FALSE)
    /\ now = 0

\* a user event that updates changes: the effect calls the debounced function
Edited == OnSaveChanges(FALSE) /\ UNCHANGED <<localStorage, localData, pc, now>>

StoreSave ==
    /\ SaveEntry(StoreId)
    /\ IF saveReturnsEarly(changes, timeEntries, StoreId)
       THEN UNCHANGED storeVars
       ELSE Edited

\* a period begins with nothing to run: a waiting call grows one period older
Elapse ==
    /\ debounced' = [debounced EXCEPT !.age = IF debounced.pending THEN 1 ELSE 0,
                                      !.fired = FALSE]
    /\ UNCHANGED localStorage

\* the effect of a tick of the running timer.  The timer of a call made by
\* the effect of the tick before falls due at the same moment: either the
\* new call comes first and puts the timer off, or the timer fires first
\* and writes the arguments of the call before.
TickEffect ==
    \/ /\ debounced' = debounceCall([debounced EXCEPT !.fired = FALSE], changes', TRUE)
       /\ UNCHANGED localStorage
    \/ /\ debounced.pending
       /\ debounced.tie
       /\ localStorage' = JSONstringify(debounced.lastArgs)
       /\ debounced' = debounceCall([debounced EXCEPT !.fired = TRUE], changes', TRUE)

\* the interval fires, lines 66-74, or, with App unmounted, time just passes
Period ==
    /\ ~(debounced.pending /\ debounced.age = 1)
    /\ now' = 1 - now
    /\ UNCHANGED <<localData, pc>>
    /\ \/ /\ Tick
          /\ IF activeTimeEntry = NoEntry THEN Elapse ELSE TickEffect
       \/ /\ ~crashed
          /\ TotalTime >= MaxTime
          /\ UNCHANGED appVars
          /\ IF activeTimeEntry = NoEntry THEN Elapse ELSE TickEffect
       \/ /\ crashed
          /\ UNCHANGED appVars
          /\ Elapse

\* the debounce timer fires a full wait after the last call, lines 22-25
TimerExpired ==
    /\ debounced.pending
    /\ debounced.age = 1
    /\ localStorage' = JSONstringify(debounced.lastArgs)
    /\ debounced' = [NoCall EXCEPT !.fired = TRUE]
    /\ UNCHANGED <<appVars, localData, pc, now>>

NextStore ==
    \/ ChangeNotes /\ Edited
    \/ ChangeDate /\ Edited
    \/ StartEntry(StoreId) /\ UNCHANGED storeVars
    \/ Pause /\ UNCHANGED storeVars
    \/ RevertEntry(StoreId) /\ Edited
    \/ StoreSave
    \/ Period
    \/ TimerExpired

\* setInterval and setTimeout keep firing
SpecStore ==
    /\ InitStore
    /\ [][NextStore]_vars
    /\ WF_vars(Period)
    /\ WF_vars(TimerExpired)

(***************************************************************************)
(* Vocabulary of the properties.                                           *)
(***************************************************************************)
Fields == {"id", "notes", "time", "date"}

HasEntry(tes, id) == \E i \in 1..Len(tes) : tes[i].id = id

\* the pending record of id is the same in ch1 and ch2: absent in both, or equal
SamePending(ch1, ch2, id) ==
    /\ id \in DOMAIN ch1 <=> id \in DOMAIN ch2
    /\ id \in DOMAIN ch1 => ch1[id] = ch2[id]

\* field k of entry te as the card shows it: the pending value when there is one
MergedField(ch, te, k) ==
    IF te.id \in DOMAIN ch /\ k \in DOMAIN ch[te.id] THEN ch[te.id][k] ELSE te[k]

\* the step is a call of handler op with argument id
Called(op, id) == last'.op = op /\ last'.id = id

\* what save(id) is to do: write the merged fields into the entry of id, drop its record
SaveCommits(id) ==
    /\ Len(timeEntries') = Len(timeEntries)
    /\ \A i \in 1..Len(timeEntries) :
          IF timeEntries[i].id = id
          THEN /\ DOMAIN timeEntries'[i] = Fields
               /\ \A k \in Fields :
                     timeEntries'[i][k] = MergedField(changes, timeEntries[i], k)
          ELSE timeEntries'[i] = timeEntries[i]
    /\ id \notin DOMAIN changes'
    /\ \A other \in EntryIds \ {id} : SamePending(changes, changes', other)

\* the time a tick is to count on from: pending, else canonical, else 0
EffectiveTime(ch, tes, id) ==
    IF id \in DOMAIN ch /\ "time" \in DOMAIN ch[id]
    THEN ch[id].time
    ELSE IF HasEntry(tes, id)
         THEN (CHOOSE te \in {tes[i] : i \in 1..Len(tes)} : te.id = id).time
         ELSE 0

\* the date is on the day of the year of the selected date
FallsOn(date, selected) ==
    /\ date.kind = "moment"
    /\ selected.kind = "moment"
    /\ date.doy = selected.doy

(***************************************************************************)
(* C1. save(id), for an id with a canonical entry and a pending record,    *)
(* makes the canonical entry equal, field by field, to the merged view of  *)
(* before the call, removes id from the change-set, and leaves the         *)
(* canonical entry and the pending record of every other id as they were.  *)
(***************************************************************************)
C1_SaveCommitsMergedView ==
    [][\A id \in EntryIds :
          (Called("save", id) /\ HasEntry(timeEntries, id) /\ id \in DOMAIN changes)
              => SaveCommits(id)]_vars

\* entry "1" was saved with a tick and typed notes pending, while "2" had a tick pending
C1_Witness ==
    /\ last.op = "save" /\ last.id = "1"
    /\ timeEntries[1].time = 1
    /\ timeEntries[1].notes = "ab"
    /\ "1" \notin DOMAIN changes
    /\ "2" \in DOMAIN changes

(***************************************************************************)
(* C2. save(id) for an id without a canonical entry, or without a record   *)
(* in the change-set, changes nothing: the canonical list, the change-set, *)
(* the active timer and the selected date are as before, and the render    *)
(* does not fail.                                                          *)
(***************************************************************************)
C2_SaveNoOp ==
    [][\A id \in EntryIds :
          (Called("save", id) /\ (~HasEntry(timeEntries, id) \/ id \notin DOMAIN changes))
              => /\ UNCHANGED <<timeEntries, changes, activeTimeEntry, currentDate>>
                 /\ ~crashed']_vars

\* save("3") was called while "3", which has no canonical entry, had a pending record
C2_Witness ==
    /\ last.op = "save" /\ last.id = "3"
    /\ "3" \in DOMAIN changes
    /\ ~HasEntry(timeEntries, "3")

(***************************************************************************)
(* C3. revert(id) called while id is the active timer leaves the timer     *)
(* idle, removes id from the change-set and leaves every canonical entry   *)
(* unchanged; after it no tick touches the pending record of id until      *)
(* start(id): a tick changes the pending record of the active id only, and *)
(* an id becomes active only in start(id).                                 *)
(***************************************************************************)
C3_RevertStopsTimer ==
    [][\A id \in EntryIds :
          /\ (Called("revert", id) /\ activeTimeEntry = id)
                => /\ activeTimeEntry' = NoEntry
                   /\ id \notin DOMAIN changes'
                   /\ timeEntries' = timeEntries
          /\ (last'.op = "tick" /\ activeTimeEntry # id)
                => SamePending(changes, changes', id)
          /\ (activeTimeEntry # id /\ activeTimeEntry' = id)
                => Called("start", id)]_vars

\* revert("1") found "1" active and called pause(), while "2" had a tick pending
C3_Witness ==
    /\ last.op = "revert" /\ last.id = "1" /\ last.paused
    /\ activeTimeEntry = NoEntry
    /\ "1" \notin DOMAIN changes
    /\ "2" \in DOMAIN changes

(***************************************************************************)
(* C4. In every reachable state each key of the change-set maps to a       *)
(* record with at least one field: an id is a key exactly when a field of  *)
(* it is pending, and no key maps to an empty record.                      *)
(***************************************************************************)
C4_NoEmptyRecord == \A id \in DOMAIN changes : DOMAIN changes[id] # {}

\* the date of "1" was cleared: its record holds the one key date, set to undefined
C4_Witness ==
    /\ last.op = "change" /\ last.id = "1"
    /\ "1" \in DOMAIN changes
    /\ changes["1"] = [date |-> Undefined]
    /\ "2" \in DOMAIN changes

(***************************************************************************)
(* C5. A tick while the timer is running(id) sets the pending time of id   *)
(* to the effective time plus one, the effective time being the pending    *)
(* time when the change-set holds one for id, whatever its value,          *)
(* otherwise the time of the canonical entry, otherwise 0.                 *)
(***************************************************************************)
C5_TickAddsOne ==
    [][(last'.op = "tick" /\ activeTimeEntry # NoEntry)
          => /\ activeTimeEntry \in DOMAIN changes'
             /\ "time" \in DOMAIN changes'[activeTimeEntry]
             /\ changes'[activeTimeEntry].time =
                   EffectiveTime(changes, timeEntries, activeTimeEntry) + 1]_vars

\* a tick on "1" counted on from the saved time of its entry
C5_Witness ==
    /\ last.op = "tick" /\ last.id = "1"
    /\ timeEntries[1].time = 1
    /\ "1" \in DOMAIN changes
    /\ changes["1"] = [time |-> 2]

(***************************************************************************)
(* C6. In a run that starts with an empty change-set, the merged time of   *)
(* every entry never reverted is its seed time plus the number of ticks    *)
(* delivered while it was the active timer; an entry with no such tick     *)
(* keeps its seed time and has no pending time.                            *)
(***************************************************************************)
C6_TimeIsSeedPlusTicks ==
    \A i \in 1..Len(timeEntries) :
        timeEntries[i].id \in tracked =>
            LET id == timeEntries[i].id IN
            /\ MergedField(changes, timeEntries[i], "time")
                  = EXISTING_TE[i].time + delivered[id]
            /\ delivered[id] = 0 =>
                  /\ timeEntries[i].time = EXISTING_TE[i].time
                  /\ ~(id \in DOMAIN changes /\ "time" \in DOMAIN changes[id])

\* start("1"), two ticks, save("1"): "1" holds 2, "2" was never touched
C6_Witness ==
    /\ savedChanges = EmptyObject
    /\ tracked = SeededIds
    /\ delivered["1"] = 2
    /\ timeEntries[1].time = 2
    /\ timeEntries[2].time = 0
    /\ changes = EmptyObject

(***************************************************************************)
(* C7. The canonical list changes only in save(id) called for an id that   *)
(* has an entry and a pending record; every other step leaves it as it was.*)
(***************************************************************************)
C7_OnlySaveWrites ==
    [][timeEntries' # timeEntries
          => \E id \in EntryIds :
                /\ Called("save", id)
                /\ HasEntry(timeEntries, id)
                /\ id \in DOMAIN changes]_vars

\* save("2") wrote a tick of "2" into the canonical list
C7_Witness ==
    /\ last.op = "save" /\ last.id = "2"
    /\ timeEntries[2].time = 1
    /\ timeEntries[1] = EXISTING_TE[1]

(***************************************************************************)
(* C8. change(id, fields) leaves id with a record holding the fields it    *)
(* had before and the supplied ones, each supplied field with its new      *)
(* value and each other field with its old one (exactly the supplied       *)
(* fields when id was not dirty); the records of the other ids are         *)
(* unchanged.  Both callers are covered: the cards and the tick.           *)
(***************************************************************************)
C8_ChangeMerges ==
    [][((last'.op = "change" \/ last'.op = "tick") /\ last'.id # NoEntry)
          => LET id == last'.id
                 supplied == last'.updates
                 before == IF id \in DOMAIN changes THEN DOMAIN changes[id] ELSE {}
             IN  /\ id \in DOMAIN changes'
                 /\ DOMAIN changes'[id] = before \cup DOMAIN supplied
                 /\ \A k \in DOMAIN supplied : changes'[id][k] = supplied[k]
                 /\ \A k \in before \ DOMAIN supplied : changes'[id][k] = changes[id][k]
                 /\ \A other \in EntryIds \ {id} : SamePending(changes, changes', other)]_vars

\* notes typed over the stored notes of "1": the new notes won, the stored time was kept
C8_Witness ==
    /\ last.op = "change" /\ last.id = "1"
    /\ savedChanges = ("1" :> [notes |-> "a", time |-> 1])
    /\ changes = ("1" :> [notes |-> "ab", time |-> 1])

(***************************************************************************)
(* C9. After clearChanges(id), which revert(id) always calls and save(id)  *)
(* calls unless it returns early, id is no key of the change-set, id is    *)
(* not among the dirty ids handed to the list, and the records of the      *)
(* other ids are unchanged.                                                *)
(***************************************************************************)
C9_ClearRemovesKey ==
    [][\A id \in EntryIds :
          (\/ Called("revert", id)
           \/ Called("save", id) /\ HasEntry(timeEntries, id) /\ id \in DOMAIN changes)
              => /\ id \notin DOMAIN changes'
                 /\ id \notin dirtyItems'
                 /\ \A other \in EntryIds \ {id} : SamePending(changes, changes', other)]_vars

\* the stored changes of "1" were reverted, not saved, while "2" had a tick pending
C9_Witness ==
    /\ last.op = "revert" /\ last.id = "1"
    /\ savedChanges = ("1" :> [notes |-> "a", time |-> 1])
    /\ timeEntries = EXISTING_TE
    /\ DOMAIN changes = {"2"}
    /\ dirtyItems = {"2"}

(***************************************************************************)
(* C10. Changing the selected date leaves the canonical list and the       *)
(* change-set unchanged, and when the date of no merged entry falls on the *)
(* day of the year of the new selected date, the visible list is empty.    *)
(***************************************************************************)
C10_DateOnlyFilters ==
    [][last'.op = "date"
          => /\ timeEntries' = timeEntries
             /\ changes' = changes
             /\ (\A i \in 1..Len(timeEntries) :
                    ~FallsOn(MergedField(changes, timeEntries[i], "date"), currentDate'))
                   => timeEntriesWithChanges' = <<>>]_vars

\* a day no entry is on was selected while "1" was dirty
C10_Witness ==
    /\ last.op = "date"
    /\ currentDate = Moment(2022, 2)
    /\ timeEntriesWithChanges = <<>>
    /\ "1" \in DOMAIN changes
    /\ ~crashed

(***************************************************************************)
(* C11. Once the page has started, the change-set of App is the mapping    *)
(* parsed from the item stored under the key when there is one that        *)
(* parses, the empty mapping when there is none or it does not parse, and  *)
(* in both cases the first render has not failed.                          *)
(***************************************************************************)
C11_InitialChangesFromStore ==
    pc = "mounted" =>
        /\ ~crashed
        /\ changes = IF localStorage.kind = "text" THEN localStorage.json ELSE EmptyObject

(***************************************************************************)
(* Vocabulary of the properties of the store.                              *)
(***************************************************************************)
\* no call waits, and the store holds the change-set App shows
Stored ==
    /\ ~debounced.pending
    /\ ~crashed => localStorage = JSONstringify(changes)

\* the step is the passing of time: the start of a period or the firing of the timer
UserIdle ==
    \/ now' # now
    \/ debounced.pending /\ ~debounced'.pending

\* the step hands no change-set to the debounced function
Quiet ==
    \/ debounced.pending /\ ~debounced'.pending
    \/ now' # now /\ (activeTimeEntry = NoEntry \/ crashed)
    \/ now' = now /\ debounced' = debounced /\ changes' = changes

HoldsUpdates(ch, id, updates) ==
    /\ id \in DOMAIN ch
    /\ \A k \in DOMAIN updates : k \in DOMAIN ch[id] /\ ch[id][k] = updates[k]

\* the entry as its card shows it: field by field, pending before canonical
MergedEntry(ch, te) == [k \in Fields |-> MergedField(ch, te, k)]

\* the merged date of the entry falls on the selected day
VisibleOn(te) == FallsOn(te.date, currentDate)

(***************************************************************************)
(* C13. A tick changes at most the pending record of the id that is active *)
(* when it runs, and no other piece of state: an idle tick changes         *)
(* nothing; pause() leaves the timer idle and start(b) leaves b active,    *)
(* whoever was active before; the active id changes only in start, pause   *)
(* and revert; and the tick of a running timer increments the pending time *)
(* of the active id.                                                       *)
(***************************************************************************)
C13_TickTouchesActiveOnly ==
    [][/\ last'.op = "tick"
            => /\ UNCHANGED <<timeEntries, activeTimeEntry, currentDate>>
               /\ \A id \in EntryIds \ {activeTimeEntry} :
                     SamePending(changes, changes', id)
               /\ activeTimeEntry = NoEntry => changes' = changes
               /\ activeTimeEntry # NoEntry
                     => /\ HoldsUpdates(changes', activeTimeEntry,
                               [time |-> EffectiveTime(changes, timeEntries,
                                                       activeTimeEntry) + 1])
                        /\ \A k \in DOMAIN changes'[activeTimeEntry] \ {"time"} :
                              /\ activeTimeEntry \in DOMAIN changes
                              /\ k \in DOMAIN changes[activeTimeEntry]
                              /\ changes'[activeTimeEntry][k] = changes[activeTimeEntry][k]
       /\ last'.op = "pause" => activeTimeEntry' = NoEntry
       /\ \A b \in EntryIds : Called("start", b) => activeTimeEntry' = b
       /\ activeTimeEntry' # activeTimeEntry
            => last'.op \in {"start", "pause", "revert"}]_vars

\* "1" ran for a tick, start("2") was called while it ran, and the next tick went to "2"
C13_Witness ==
    /\ savedChanges = EmptyObject
    /\ last.op = "tick" /\ last.id = "2"
    /\ activeTimeEntry = "2"
    /\ "1" \in DOMAIN changes /\ changes["1"] = [time |-> 1]
    /\ "2" \in DOMAIN changes /\ changes["2"] = [time |-> 1]

(***************************************************************************)
(* C14. In every state with a rendered view, the visible list is the       *)
(* canonical entries in canonical order, each with its pending fields      *)
(* applied, restricted to those whose merged date falls on the day of the  *)
(* year of the selected date; with no selected date the list is empty.     *)
(***************************************************************************)
C14_VisibleList ==
    ~crashed =>
        /\ timeEntriesWithChanges =
              SelectSeq([i \in 1..Len(timeEntries) |-> MergedEntry(changes, timeEntries[i])],
                        VisibleOn)
        /\ currentDate = Null => timeEntriesWithChanges = <<>>

\* "1" is listed on the day of its pending date, of another year, and "2" is not
C14_Witness ==
    /\ ~crashed
    /\ currentDate = Moment(2022, 2)
    /\ Len(timeEntriesWithChanges) = 1
    /\ timeEntriesWithChanges[1].id = "1"
    /\ timeEntriesWithChanges[1].date = Moment(2021, 2)
    /\ timeEntries[1].date = Today

(***************************************************************************)
(* C15. Every visible card offers exactly one of Start and Pause, Pause    *)
(* exactly when its id is the active timer, and offers Save and Revert     *)
(* exactly when its id is a key of the change-set.                         *)
(***************************************************************************)
C15_CardActions ==
    ~crashed =>
        \A i \in 1..Len(TimeEntryList) :
            LET card == TimeEntryList[i]
            IN  /\ ("Start" \in card.actions) # ("Pause" \in card.actions)
                /\ "Pause" \in card.actions <=> activeTimeEntry = card.te.id
                /\ "Save" \in card.actions <=> card.te.id \in DOMAIN changes
                /\ "Revert" \in card.actions <=> card.te.id \in DOMAIN changes

\* the running, dirty card "1" next to the idle, clean card "2"
C15_Witness ==
    /\ ~crashed
    /\ Len(TimeEntryList) = 2
    /\ activeTimeEntry = "1"
    /\ TimeEntryList[1].te.id = "1"
    /\ TimeEntryList[1].actions = {"Pause", "Revert", "Save"}
    /\ TimeEntryList[2].actions = {"Start"}

(***************************************************************************)
(* C16. Under every interleaving of ticks and user events no update is     *)
(* lost: the fields a field edit recorded just before a tick are pending   *)
(* with their values after the tick, the time a tick recorded just before  *)
(* a field edit is pending after the edit, two ticks in a row count two,   *)
(* and a revert or save of another id leaves the fields recorded by the    *)
(* step before it pending.                                                 *)
(***************************************************************************)
C16_NoLostUpdate ==
    [][/\ (last.op = "change" /\ last'.op = "tick")
            => HoldsUpdates(changes', last.id, last.updates)
       /\ (last.op = "tick" /\ last.id # NoEntry /\ last'.op = "change")
            => HoldsUpdates(changes', last.id, last.updates)
       /\ (last.op = "tick" /\ last.id # NoEntry /\ last'.op = "tick"
              /\ activeTimeEntry = last.id)
            => HoldsUpdates(changes', last.id, [time |-> last.updates.time + 1])
       /\ (last.op \in {"change", "tick"} /\ last.id # NoEntry
              /\ last'.op \in {"revert", "save"} /\ last'.id # last.id)
            => HoldsUpdates(changes', last.id, last.updates)]_vars

\* notes typed on "1", then a tick of its running timer: both are pending
C16_Witness ==
    /\ last.op = "tick" /\ last.id = "1"
    /\ "1" \in DOMAIN changes
    /\ changes["1"] = [notes |-> "ab", time |-> 1]
    /\ savedChanges = EmptyObject

(***************************************************************************)
(* C17. Every value written to the store, read back and parsed as the next *)
(* start of the page does, is the change-set that was written: the same    *)
(* keys, and for each key the same pending fields with the same values.    *)
(***************************************************************************)
C17_RoundTrip ==
    [][localStorage' # localStorage
          => parseLocalData(localStorage') = debounced.lastArgs]_vars

(***************************************************************************)
(* C18. In every reachable state every merged entry has a defined date,    *)
(* also after the date field of a card was cleared.                        *)
(***************************************************************************)
C18_MergedDateDefined ==
    \A i \in 1..Len(timeEntries) :
        MergedField(changes, timeEntries[i], "date").kind # "undefined"

====
